---------------------------- MODULE Spec2Model ----------------------------
(***************************************************************************)
(* Model of src/stripe_server.py: the Stripe payment bridge of the         *)
(* videos2hotbot Telegram bot.                                             *)
(*                                                                         *)
(* The state is what the two HTTP handlers can observe or change: the      *)
(* account store behind the `database` module (points balance and          *)
(* priority tier per account), the messaging channel (`bot`), and, for     *)
(* every webhook delivery being served, the request it carries, the        *)
(* position of its handler, the handler's local variables, the calls it    *)
(* has made to the store and to the messaging channel, and its response.   *)
(*                                                                         *)
(* Text is modelled as a sequence of one-character strings wherever the    *)
(* code parses it (int(...)), and as a TLA+ string where the code only     *)
(* compares it.  A metadata dictionary is a function whose DOMAIN is the   *)
(* set of keys present, so that dict.get(key) of an absent key is None.    *)
(***************************************************************************)
EXTENDS Integers, Sequences, FiniteSets, TLC

(***************************************************************************)
(* Bounds of the model.                                                    *)
(***************************************************************************)
\* Number of webhook deliveries that can be in the server at once.
NumDeliveries == 2
\* Number of deliveries served one after the other in Spec.
MaxServed == 2

Deliveries == 1 .. NumDeliveries

(***************************************************************************)
(* Program constants.                                                      *)
(***************************************************************************)
POINT_PACKAGES ==
    [ p200  |-> [label |-> "500 points",  amount |-> 8000,  points |-> 500,  priority_boost |-> 1],
      p500  |-> [label |-> "2000 points", amount |-> 1800,  points |-> 2000, priority_boost |-> 1],
      p1000 |-> [label |-> "5000 points", amount |-> 40000, points |-> 5000, priority_boost |-> 1] ]

PROJECT_IDENTIFIER == "videos2hotbot"

\* The event type the webhook acts on.
CHECKOUT_COMPLETED == "checkout.session.completed"

\* points_awarded when the metadata value cannot be converted.
POINTS_FALLBACK == 0
\* priority_boost when the metadata value cannot be converted.
PRIORITY_FALLBACK == 2

HTTP_OK == 200
HTTP_BAD_REQUEST == 400

(***************************************************************************)
(* Python's int(x) for x a str or None.  A str is a sequence of            *)
(* one-character strings; surrounding blanks are stripped, one sign is     *)
(* allowed, and at least one decimal digit must follow.  An absent value   *)
(* (None) raises TypeError and malformed text raises ValueError; the       *)
(* handler catches both alike, so both are ok = FALSE here.                *)
(***************************************************************************)
Digits == {"0", "1", "2", "3", "4", "5", "6", "7", "8", "9"}

DigitVal(c) ==
    CASE c = "0" -> 0 [] c = "1" -> 1 [] c = "2" -> 2 [] c = "3" -> 3
      [] c = "4" -> 4 [] c = "5" -> 5 [] c = "6" -> 6 [] c = "7" -> 7
      [] c = "8" -> 8 [] c = "9" -> 9

RECURSIVE LStrip(_)
LStrip(s) == IF s # <<>> /\ Head(s) = " " THEN LStrip(Tail(s)) ELSE s

RECURSIVE RStrip(_)
RStrip(s) ==
    IF s # <<>> /\ s[Len(s)] = " " THEN RStrip(SubSeq(s, 1, Len(s) - 1)) ELSE s

RECURSIVE NatOf(_)
NatOf(ds) ==
    IF ds = <<>> THEN 0
    ELSE 10 * NatOf(SubSeq(ds, 1, Len(ds) - 1)) + DigitVal(ds[Len(ds)])

IntOfStr(s) ==
    LET t      == RStrip(LStrip(s))
        signed == t # <<>> /\ t[1] \in {"+", "-"}
        ds     == IF signed THEN Tail(t) ELSE t
    IN  IF ds # <<>> /\ \A i \in 1 .. Len(ds) : ds[i] \in Digits
        THEN [ok |-> TRUE,
              val |-> IF signed /\ t[1] = "-" THEN 0 - NatOf(ds) ELSE NatOf(ds)]
        ELSE [ok |-> FALSE, val |-> 0]

\* int(metadata.get(key)): an absent key gives None, and int(None) raises.
IntOfKey(metadata, key) ==
    IF key \in DOMAIN metadata THEN IntOfStr(metadata[key])
    ELSE [ok |-> FALSE, val |-> 0]

(***************************************************************************)
(* The requests the provider, or anybody else, can post to the webhook.    *)
(***************************************************************************)
Signatures == {"valid", "forged", "absent"}
EventTypes == {CHECKOUT_COMPLETED, "payment_intent.succeeded"}
Projects   == {PROJECT_IDENTIFIER, "otherbot"}
UserIdTexts   == {<<"7">>, <<"8">>, <<"7", "a">>}
PackageIds    == {"p200", "vip"}
PointsTexts   == {<<"5", "0", "0">>, <<"2", "0", "0", "0">>, <<"a", "b", "c">>}
PriorityTexts == {<<"1">>, <<"3">>, <<"x">>}

\* The accounts of the store: those the numeric account ids above name.
Accounts == {7, 8}
\* Priority tiers an account may hold before the first delivery.
InitialTiers == {0, 5}

MetadataKeys ==
    {"project", "telegram_user_id", "package_id", "points_awarded", "priority_boost"}

FullMetadata ==
    [project : Projects, telegram_user_id : UserIdTexts, package_id : PackageIds,
     points_awarded : PointsTexts, priority_boost : PriorityTexts]

\* Every dictionary holding a subset of the keys.
Metadatas ==
    {[k \in K |-> full[k]] : full \in FullMetadata, K \in SUBSET MetadataKeys}

Events == [type : EventTypes, metadata : Metadatas]

\* A request: the Stripe-Signature header and the body.  A body that is a
\* well-formed envelope has the event it encodes; one that is not has none.
Payloads ==
    [sig : Signatures, event : Events] \cup [sig : Signatures]


\* The requests of the overlapping deliveries of SpecMulti: well-signed
\* completed checkouts of this tenant for account 7 and a catalog package,
\* which all reach the store.
TenantMetadatas ==
    {m \in Metadatas :
        /\ {"project", "telegram_user_id", "package_id", "points_awarded"} \subseteq DOMAIN m
        /\ m.project = PROJECT_IDENTIFIER
        /\ m.telegram_user_id = <<"7">>
        /\ m.package_id = "p200"
        /\ "priority_boost" \in DOMAIN m => m.priority_boost # <<"x">>}

TenantPayloads ==
    [sig : {"valid"}, event : [type : {CHECKOUT_COMPLETED}, metadata : TenantMetadatas]]

(***************************************************************************)
(* State.                                                                  *)
(***************************************************************************)
VARIABLES
    points,     \* store: points balance of each account
    priority,   \* store: priority tier of each account (lower is better)
    bot,        \* TRUE iff BOT_TOKEN is set, so that bot is not None
    pc,         \* per delivery: where its handler stands
    req,        \* per delivery being served: the request
    local,      \* per delivery past coercion: user_id, points_awarded, priority_boost
    calls,      \* per delivery: the store and messaging calls made so far
    resp,       \* per answered delivery: the HTTP response
    served,     \* number of deliveries received so far
    checkout,   \* the latest /crear-sesion exchange, if any: <<>> or <<exchange>>
    asked       \* number of /crear-sesion requests received so far

vars == <<points, priority, bot, pc, req, local, calls, resp, served, checkout, asked>>

Reply(status, content) == [status |-> status, content |-> content]

(***************************************************************************)
(* stripe.Webhook.construct_event: the signature header is verified over   *)
(* the raw body first, and only then is the body parsed.  The signing      *)
(* secret STRIPE_WEBHOOK_SECRET is taken to be configured.                 *)
(***************************************************************************)
SignatureVerifies(payload) == payload.sig = "valid"

WellFormed(payload) == "event" \in DOMAIN payload

\* Mutant: the body is parsed without verifying the signature.
construct_event_SkipsSignature(payload) ==
    IF ~WellFormed(payload) THEN [ok |-> FALSE, detail |-> "Payload invalido"]
    ELSE [ok |-> TRUE, detail |-> ""]

construct_event(payload) ==
    IF ~SignatureVerifies(payload) THEN [ok |-> FALSE, detail |-> "Firma invalida"]
    ELSE IF ~WellFormed(payload) THEN [ok |-> FALSE, detail |-> "Payload invalido"]
    ELSE [ok |-> TRUE, detail |-> ""]

(***************************************************************************)
(* The webhook's reading of a verified event.                              *)
(***************************************************************************)
\* Mutant: an event without a project tag is taken as this tenant's.
ProjectMismatch_OnlyWhenPresent(event) ==
    /\ event.type = CHECKOUT_COMPLETED
    /\ "project" \in DOMAIN event.metadata
    /\ event.metadata.project # PROJECT_IDENTIFIER

\* event_project != PROJECT_IDENTIFIER, for a completed checkout.
ProjectMismatch(event) ==
    /\ event.type = CHECKOUT_COMPLETED
    /\ ~ /\ "project" \in DOMAIN event.metadata
         /\ event.metadata.project = PROJECT_IDENTIFIER

\* Mutant: every event type is processed as a completed checkout.
HandlesEvent_AnyType(event) == TRUE

\* The second test of the event type, which guards the processing.
HandlesEvent(event) == event.type = CHECKOUT_COMPLETED

\* Mutant: an unusable account id falls back to 0 like the other fields.
UserId_FallbackZero(metadata) ==
    LET r == IntOfKey(metadata, "telegram_user_id")
    IN  IF r.ok THEN r ELSE [ok |-> TRUE, val |-> 0]

\* user_id = int(user_id_str); not ok is the except branch.
UserId(metadata) == IntOfKey(metadata, "telegram_user_id")

\* Mutant: the points are taken from the catalog, not from the event.
PointsAwarded_CatalogPoints(metadata) ==
    IF "package_id" \in DOMAIN metadata /\ metadata.package_id \in DOMAIN POINT_PACKAGES
    THEN POINT_PACKAGES[metadata.package_id].points
    ELSE POINTS_FALLBACK

PointsAwarded(metadata) ==
    LET r == IntOfKey(metadata, "points_awarded")
    IN  IF r.ok THEN r.val ELSE POINTS_FALLBACK

\* Mutant: an unusable priority_boost falls back to the best tier.
PriorityBoost_FallbackZero(metadata) ==
    LET r == IntOfKey(metadata, "priority_boost")
    IN  IF r.ok THEN r.val ELSE 0

PriorityBoost(metadata) ==
    LET r == IntOfKey(metadata, "priority_boost")
    IN  IF r.ok THEN r.val ELSE PRIORITY_FALLBACK

\* Mutant: any package id that is present is accepted.
PackageKnown_AnyPresent(metadata) == "package_id" \in DOMAIN metadata

\* package_id in POINT_PACKAGES (user_id is never None at that point).
PackageKnown(metadata) ==
    /\ "package_id" \in DOMAIN metadata
    /\ metadata.package_id \in DOMAIN POINT_PACKAGES

(***************************************************************************)
(* The store behind `database`, and the calls the handler logs.            *)
(***************************************************************************)
update_user_points(pts, user_id, amount) ==
    [pts EXCEPT ![user_id] = @ + amount]

update_user_priority(prio, user_id, tier) ==
    [prio EXCEPT ![user_id] = tier]

CreditCall(l, ok) ==
    [op |-> "update_user_points", user_id |-> l.user_id, value |-> l.points_awarded, ok |-> ok]

PriorityCall(l, ok) ==
    [op |-> "update_user_priority", user_id |-> l.user_id, value |-> l.priority_boost, ok |-> ok]

MessageCall(l, ok) ==
    [op |-> "send_message", chat_id |-> l.user_id, points |-> l.points_awarded,
     tier |-> l.priority_boost, ok |-> ok]

(***************************************************************************)
(* Init: no delivery in the server; the store holds any tiers.             *)
(***************************************************************************)
Init ==
    /\ points = [a \in Accounts |-> 0]
    /\ priority \in {[a \in Accounts |-> t] : t \in InitialTiers}
    /\ bot \in BOOLEAN
    /\ pc = [d \in Deliveries |-> "idle"]
    /\ req = <<>>
    /\ local = <<>>
    /\ calls = [d \in Deliveries |-> <<>>]
    /\ resp = <<>>
    /\ served = 0
    /\ checkout = <<>>
    /\ asked = 0

\* The handler of delivery d returns response r.
Return(d, r) ==
    /\ pc' = [pc EXCEPT ![d] = "done"]
    /\ resp' = (d :> r) @@ resp

(***************************************************************************)
(* stripe_webhook, from the arrival of the request to its first call to    *)
(* the store, or to its response when it makes none.                       *)
(***************************************************************************)
Deliver(d, payload) ==
    /\ pc[d] = "idle"
    /\ req' = (d :> payload) @@ req
    /\ served' = served + 1
    /\ LET ce == construct_event(payload) IN
       IF ~ce.ok
       THEN Return(d, Reply(HTTP_BAD_REQUEST, ce.detail)) /\ UNCHANGED local
       ELSE
         LET event    == payload.event
             metadata == event.metadata
         IN  IF ProjectMismatch(event)
             THEN Return(d, Reply(HTTP_OK, "ignored")) /\ UNCHANGED local
             ELSE IF ~HandlesEvent(event)
             THEN Return(d, Reply(HTTP_OK, "ok")) /\ UNCHANGED local
             ELSE IF ~UserId(metadata).ok
             THEN Return(d, Reply(HTTP_BAD_REQUEST, "error")) /\ UNCHANGED local
             ELSE IF ~PackageKnown(metadata)
             THEN Return(d, Reply(HTTP_OK, "ok")) /\ UNCHANGED local
             ELSE /\ pc' = [pc EXCEPT ![d] = "update_user_points"]
                  /\ local' = (d :> [user_id        |-> UserId(metadata).val,
                                     points_awarded |-> PointsAwarded(metadata),
                                     priority_boost |-> PriorityBoost(metadata)]) @@ local
                  /\ UNCHANGED resp
    /\ UNCHANGED <<points, priority, bot, calls, checkout, asked>>

\* Mutant: a request already credited by another delivery is not credited again.
CreditPoints_Deduplicated(d) ==
    /\ pc[d] = "update_user_points"
    /\ IF \E e \in DOMAIN req \ {d} : req[e] = req[d] /\ calls[e] # <<>>
       THEN /\ Return(d, Reply(HTTP_OK, "ok"))
            /\ UNCHANGED <<points, calls>>
       ELSE /\ calls' = [calls EXCEPT ![d] = Append(@, CreditCall(local[d], TRUE))]
            /\ points' = update_user_points(points, local[d].user_id,
                                            local[d].points_awarded)
            /\ pc' = [pc EXCEPT ![d] = "update_user_priority"]
            /\ UNCHANGED resp
    /\ UNCHANGED <<priority, bot, req, local, served, checkout, asked>>

\* Mutant: an exception of the credit is swallowed and the handler goes on.
CreditPoints_FailureIgnored(d) ==
    /\ pc[d] = "update_user_points"
    /\ \E ok \in BOOLEAN :
         /\ calls' = [calls EXCEPT ![d] = Append(@, CreditCall(local[d], ok))]
         /\ points' = IF ok THEN update_user_points(points, local[d].user_id,
                                                    local[d].points_awarded)
                      ELSE points
         /\ pc' = [pc EXCEPT ![d] = "update_user_priority"]
         /\ UNCHANGED resp
    /\ UNCHANGED <<priority, bot, req, local, served, checkout, asked>>

\* database.update_user_points(user_id, points_awarded); an exception of the
\* store is caught by the outer except, and the handler returns 200.
CreditPoints(d) ==
    /\ pc[d] = "update_user_points"
    /\ \E ok \in BOOLEAN :
         /\ calls' = [calls EXCEPT ![d] = Append(@, CreditCall(local[d], ok))]
         /\ IF ok
            THEN /\ points' = update_user_points(points, local[d].user_id,
                                                 local[d].points_awarded)
                 /\ pc' = [pc EXCEPT ![d] = "update_user_priority"]
                 /\ UNCHANGED resp
            ELSE /\ Return(d, Reply(HTTP_OK, "ok"))
                 /\ UNCHANGED points
    /\ UNCHANGED <<priority, bot, req, local, served, checkout, asked>>

\* Mutant: the priority update is left out.
UpdatePriority_Skipped(d) ==
    /\ pc[d] = "update_user_priority"
    /\ IF bot
       THEN pc' = [pc EXCEPT ![d] = "send_message"] /\ UNCHANGED resp
       ELSE Return(d, Reply(HTTP_OK, "ok"))
    /\ UNCHANGED <<points, priority, bot, req, local, calls, served, checkout, asked>>

\* Mutant: the tier is written only when it is better than the current one.
UpdatePriority_OnlyIfBetter(d) ==
    /\ pc[d] = "update_user_priority"
    /\ \E ok \in BOOLEAN :
         /\ calls' = [calls EXCEPT ![d] = Append(@, PriorityCall(local[d], ok))]
         /\ IF ok
            THEN /\ priority' =
                      IF local[d].priority_boost < priority[local[d].user_id]
                      THEN update_user_priority(priority, local[d].user_id,
                                                local[d].priority_boost)
                      ELSE priority
                 /\ IF bot
                    THEN pc' = [pc EXCEPT ![d] = "send_message"] /\ UNCHANGED resp
                    ELSE Return(d, Reply(HTTP_OK, "ok"))
            ELSE /\ Return(d, Reply(HTTP_OK, "ok"))
                 /\ UNCHANGED priority
    /\ UNCHANGED <<points, bot, req, local, served, checkout, asked>>

\* Mutant: the confirmation is attempted whether or not bot is None.
UpdatePriority_AlwaysSends(d) ==
    /\ pc[d] = "update_user_priority"
    /\ \E ok \in BOOLEAN :
         /\ calls' = [calls EXCEPT ![d] = Append(@, PriorityCall(local[d], ok))]
         /\ IF ok
            THEN /\ priority' = update_user_priority(priority, local[d].user_id,
                                                     local[d].priority_boost)
                 /\ pc' = [pc EXCEPT ![d] = "send_message"]
                 /\ UNCHANGED resp
            ELSE /\ Return(d, Reply(HTTP_OK, "ok"))
                 /\ UNCHANGED priority
    /\ UNCHANGED <<points, bot, req, local, served, checkout, asked>>

\* Mutant: the confirmation is sent even when the priority update failed.
UpdatePriority_NotifiesAnyway(d) ==
    /\ pc[d] = "update_user_priority"
    /\ \E ok \in BOOLEAN :
         /\ calls' = [calls EXCEPT ![d] = Append(@, PriorityCall(local[d], ok))]
         /\ priority' = IF ok THEN update_user_priority(priority, local[d].user_id,
                                                        local[d].priority_boost)
                        ELSE priority
         /\ IF bot
            THEN pc' = [pc EXCEPT ![d] = "send_message"] /\ UNCHANGED resp
            ELSE Return(d, Reply(HTTP_OK, "ok"))
    /\ UNCHANGED <<points, bot, req, local, served, checkout, asked>>

\* database.update_user_priority(user_id, priority_boost), then `if bot`.
UpdatePriority(d) ==
    /\ pc[d] = "update_user_priority"
    /\ \E ok \in BOOLEAN :
         /\ calls' = [calls EXCEPT ![d] = Append(@, PriorityCall(local[d], ok))]
         /\ IF ok
            THEN /\ priority' = update_user_priority(priority, local[d].user_id,
                                                     local[d].priority_boost)
                 /\ IF bot
                    THEN pc' = [pc EXCEPT ![d] = "send_message"] /\ UNCHANGED resp
                    ELSE Return(d, Reply(HTTP_OK, "ok"))
            ELSE /\ Return(d, Reply(HTTP_OK, "ok"))
                 /\ UNCHANGED priority
    /\ UNCHANGED <<points, bot, req, local, served, checkout, asked>>

\* Mutant: a failure of the messaging channel is not caught.
SendMessage_ErrorSurfaces(d) ==
    /\ pc[d] = "send_message"
    /\ \E ok \in BOOLEAN :
         /\ calls' = [calls EXCEPT ![d] = Append(@, MessageCall(local[d], ok))]
         /\ Return(d, IF ok THEN Reply(HTTP_OK, "ok")
                            ELSE Reply(500, "Internal Server Error"))
    /\ UNCHANGED <<points, priority, bot, req, local, served, checkout, asked>>

\* await bot.send_message(...); its exception is caught by the inner except.
SendMessage(d) ==
    /\ pc[d] = "send_message"
    /\ \E ok \in BOOLEAN :
         calls' = [calls EXCEPT ![d] = Append(@, MessageCall(local[d], ok))]
    /\ Return(d, Reply(HTTP_OK, "ok"))
    /\ UNCHANGED <<points, priority, bot, req, local, served, checkout, asked>>

\* The response has been sent: the request and the handler's frame are gone.
Forget(d) ==
    /\ pc[d] = "done"
    /\ pc' = [pc EXCEPT ![d] = "idle"]
    /\ req' = [e \in DOMAIN req \ {d} |-> req[e]]
    /\ local' = [e \in DOMAIN local \ {d} |-> local[e]]
    /\ resp' = [e \in DOMAIN resp \ {d} |-> resp[e]]
    /\ calls' = [calls EXCEPT ![d] = <<>>]
    /\ UNCHANGED <<points, priority, bot, served, checkout, asked>>

\* No delivery is in the server.
Quiet == \A d \in Deliveries : pc[d] = "idle"

(***************************************************************************)
(* Spec: deliveries of any request, served one after the other.            *)
(***************************************************************************)
Next ==
    \E d \in Deliveries :
        \/ /\ Quiet
           /\ served < MaxServed
           /\ \E payload \in Payloads : Deliver(d, payload)
        \/ CreditPoints(d)
        \/ UpdatePriority(d)
        \/ SendMessage(d)
        \/ Forget(d)

Spec == Init /\ [][Next]_vars

(***************************************************************************)
(* SpecMulti: overlapping deliveries of well-signed events of this tenant, *)
(* each kept until the end so that redeliveries can be compared.           *)
(***************************************************************************)
NextMulti ==
    \E d \in Deliveries :
        \/ /\ pc[d] = "idle"
           /\ \E payload \in TenantPayloads : Deliver(d, payload)
        \/ CreditPoints(d)
        \/ UpdatePriority(d)
        \/ SendMessage(d)

SpecMulti == Init /\ [][NextMulti]_vars

(***************************************************************************)
(* crear_sesion.  A JSON value of the request is tagged with its Python    *)
(* type: [str |-> text], [int |-> n], [bool |-> b], and None for null or   *)
(* for data.get of an absent key.  paquete_id is only ever compared, so    *)
(* it is a TLA+ string or absent.                                          *)
(***************************************************************************)
\* Number of /crear-sesion requests in SpecSession.
MaxAsked == 2

HTTP_INTERNAL_ERROR == 500

None == [none |-> TRUE]

DigitChar(n) ==
    CASE n = 0 -> "0" [] n = 1 -> "1" [] n = 2 -> "2" [] n = 3 -> "3"
      [] n = 4 -> "4" [] n = 5 -> "5" [] n = 6 -> "6" [] n = 7 -> "7"
      [] n = 8 -> "8" [] n = 9 -> "9"

\* The decimal text of an integer.
RECURSIVE StrOfInt(_)
StrOfInt(n) ==
    IF n < 0 THEN <<"-">> \o StrOfInt(0 - n)
    ELSE IF n < 10 THEN <<DigitChar(n)>>
    ELSE StrOfInt(n \div 10) \o <<DigitChar(n % 10)>>

\* Python's str(v).
Str(v) ==
    IF "str" \in DOMAIN v THEN v.str
    ELSE IF "int" \in DOMAIN v THEN StrOfInt(v.int)
    ELSE IF "bool" \in DOMAIN v
         THEN (IF v.bool THEN <<"T", "r", "u", "e">> ELSE <<"F", "a", "l", "s", "e">>)
    ELSE <<"N", "o", "n", "e">>

\* Python's isinstance(v, int): bool is a subclass of int.
IsInstanceInt(v) == "int" \in DOMAIN v \/ "bool" \in DOMAIN v

\* data.get(key).
Get(data, key) == IF key \in DOMAIN data THEN data[key] ELSE None

\* The requests the bot, or anybody else, can post to /crear-sesion.
SessionUserIds  == {[str |-> <<>>], [str |-> <<"7">>], [int |-> 8], [str |-> <<"7", "a">>]}
SessionPackages == {"p200", "p500", "vip"}
SessionBoosts   == {[int |-> 3], [str |-> <<"1">>], [bool |-> TRUE]}

SessionKeys == {"telegram_user_id", "paquete_id", "priority_boost"}

SessionRequests ==
    {[k \in K |-> full[k]] :
        full \in [telegram_user_id : SessionUserIds, paquete_id : SessionPackages,
                  priority_boost : SessionBoosts],
        K \in SUBSET SessionKeys}

\* What stripe.checkout.Session.create does when called: it raises, or it
\* returns a session with a URL of the provider's choosing.
CheckoutUrls == {"https://checkout.stripe.com/c/pay/cs_1",
                 "https://checkout.stripe.com/c/pay/cs_2"}

ProviderOutcomes == {[ok |-> FALSE]} \cup [ok : {TRUE}, url : CheckoutUrls]

\* user_id = str(data.get("telegram_user_id")).
SessionUserId(data) == Str(Get(data, "telegram_user_id"))

\* not user_id or paquete_id not in POINT_PACKAGES.
InvalidUserOrPackage(data) ==
    \/ SessionUserId(data) = <<>>
    \/ ~ /\ "paquete_id" \in DOMAIN data
         /\ data.paquete_id \in DOMAIN POINT_PACKAGES

\* priority_boost is not None and not isinstance(priority_boost, int).
InvalidBoost(data) ==
    /\ Get(data, "priority_boost") # None
    /\ ~IsInstanceInt(Get(data, "priority_boost"))

\* Mutant: points_awarded is taken from the price of the package.
SessionMetadata_PointsFromAmount(data) ==
    [telegram_user_id |-> SessionUserId(data),
     package_id       |-> data.paquete_id,
     points_awarded   |-> [int |-> POINT_PACKAGES[data.paquete_id].amount],
     priority_boost   |-> Get(data, "priority_boost"),
     project          |-> PROJECT_IDENTIFIER]

\* The metadata dictionary passed to stripe.checkout.Session.create.
SessionMetadata(data) ==
    [telegram_user_id |-> SessionUserId(data),
     package_id       |-> data.paquete_id,
     points_awarded   |-> [int |-> POINT_PACKAGES[data.paquete_id].points],
     priority_boost   |-> Get(data, "priority_boost"),
     project          |-> PROJECT_IDENTIFIER]

\* The handler's exchange with its caller and with the provider: the
\* request, what the provider would do, whether it was called, the session
\* it created (<<>> if none) and the response.
Exchange(data, provider) ==
    IF InvalidUserOrPackage(data) \/ InvalidBoost(data)
    THEN [data |-> data, provider |-> provider, called |-> FALSE, session |-> <<>>,
          resp |-> [status |-> HTTP_BAD_REQUEST]]
    ELSE IF provider.ok
    THEN [data |-> data, provider |-> provider, called |-> TRUE,
          session |-> <<[url |-> provider.url, metadata |-> SessionMetadata(data)]>>,
          resp |-> [status |-> HTTP_OK, url |-> provider.url]]
    ELSE [data |-> data, provider |-> provider, called |-> TRUE, session |-> <<>>,
          resp |-> [status |-> HTTP_INTERNAL_ERROR]]

\* Mutant: the points are credited as soon as the session is created.
CrearSesion_CreditsAtOnce(data, provider) ==
    /\ asked' = asked + 1
    /\ checkout' = <<Exchange(data, provider)>>
    /\ points' = IF Exchange(data, provider).session # <<>>
                    /\ IntOfStr(SessionUserId(data)).ok
                 THEN update_user_points(points, IntOfStr(SessionUserId(data)).val,
                                         POINT_PACKAGES[data.paquete_id].points)
                 ELSE points
    /\ UNCHANGED <<priority, bot, pc, req, local, calls, resp, served>>

\* crear_sesion, whole: validation, the call to the provider, the response.
CrearSesion(data, provider) ==
    /\ asked' = asked + 1
    /\ checkout' = <<Exchange(data, provider)>>
    /\ UNCHANGED <<points, priority, bot, pc, req, local, calls, resp, served>>

(***************************************************************************)
(* The provider's side of a paid session: metadata come back in the event  *)
(* as strings, a key whose value was None is not stored, an integer is     *)
(* its decimal text and a boolean is "true" or "false".                    *)
(***************************************************************************)
FormValue(v) ==
    IF "bool" \in DOMAIN v
    THEN (IF v.bool THEN <<"t", "r", "u", "e">> ELSE <<"f", "a", "l", "s", "e">>)
    ELSE Str(v)

StripeMetadata(m) ==
    LET base == [project          |-> m.project,
                 telegram_user_id |-> m.telegram_user_id,
                 package_id       |-> m.package_id,
                 points_awarded   |-> FormValue(m.points_awarded)]
    IN  IF m.priority_boost = None THEN base
        ELSE [k \in DOMAIN base \cup {"priority_boost"} |->
                IF k = "priority_boost" THEN FormValue(m.priority_boost) ELSE base[k]]

\* The webhook request the provider posts when session s has been paid.
CompletedCheckout(s) ==
    [sig |-> "valid",
     event |-> [type |-> CHECKOUT_COMPLETED, metadata |-> StripeMetadata(s.metadata)]]

\* A session has been created by the latest exchange.
SessionCreated == Len(checkout) = 1 /\ Len(checkout[1].session) = 1

(***************************************************************************)
(* SpecSession: session requests of any kind, and deliveries of the        *)
(* completed-checkout event of the latest session, served one after the    *)
(* other.  The two handlers share no variable, so their steps commute.     *)
(***************************************************************************)
NextSession ==
    \/ /\ Quiet
       /\ asked < MaxAsked
       /\ \E data \in SessionRequests, provider \in ProviderOutcomes :
            CrearSesion(data, provider)
    \/ \E d \in Deliveries :
        \/ /\ Quiet
           /\ served < MaxServed
           /\ SessionCreated
           /\ Deliver(d, CompletedCheckout(checkout[1].session[1]))
        \/ CreditPoints(d)
        \/ UpdatePriority(d)
        \/ SendMessage(d)
        \/ Forget(d)

SpecSession == Init /\ [][NextSession]_vars

(***************************************************************************)
(* Vocabulary of the properties.  It reads the request as posted and the   *)
(* numbers its texts denote from a table, not through the handler's own    *)
(* operators.                                                              *)
(***************************************************************************)
Numeral ==
    (<<"7">> :> 7) @@ (<<"8">> :> 8) @@ (<<"1">> :> 1) @@ (<<"3">> :> 3)
      @@ (<<"5", "0", "0">> :> 500) @@ (<<"2", "0", "0", "0">> :> 2000)

CatalogIds == {"p200", "p500", "p1000"}

WellSigned(p) == p.sig = "valid" /\ "event" \in DOMAIN p

IsCheckout(p) == p.event.type = "checkout.session.completed"

ForThisTenant(p) ==
    /\ "project" \in DOMAIN p.event.metadata
    /\ p.event.metadata.project = "videos2hotbot"

Numeric(p, key) ==
    /\ key \in DOMAIN p.event.metadata
    /\ p.event.metadata[key] \in DOMAIN Numeral

NumberOf(p, key) == Numeral[p.event.metadata[key]]

InCatalog(p) ==
    /\ "package_id" \in DOMAIN p.event.metadata
    /\ p.event.metadata.package_id \in CatalogIds

\* A well-signed completed checkout of this tenant with a numeric account id.
TenantCheckout(p) ==
    /\ WellSigned(p)
    /\ IsCheckout(p)
    /\ ForThisTenant(p)
    /\ Numeric(p, "telegram_user_id")

\* The amount and the tier the handler is to use for request p.
ExpectedPoints(p) ==
    IF Numeric(p, "points_awarded") THEN NumberOf(p, "points_awarded") ELSE 0

ExpectedTier(p) ==
    IF Numeric(p, "priority_boost") THEN NumberOf(p, "priority_boost") ELSE 2

Credit(a, n, ok) ==
    [op |-> "update_user_points", user_id |-> a, value |-> n, ok |-> ok]

Tier(a, t, ok) ==
    [op |-> "update_user_priority", user_id |-> a, value |-> t, ok |-> ok]

Message(a, n, t, ok) ==
    [op |-> "send_message", chat_id |-> a, points |-> n, tier |-> t, ok |-> ok]

\* The store as Init leaves it.
StoreAsInit ==
    /\ points = [a \in Accounts |-> 0]
    /\ \E t \in InitialTiers : priority = [a \in Accounts |-> t]

\* Delivery d was answered with `status`, made no call to the store or to
\* the messaging channel, and, being the first delivery, left the store as
\* it was.
RejectedWithoutEffect(d, status) ==
    /\ pc[d] = "done"
    /\ resp[d].status = status
    /\ calls[d] = <<>>
    /\ served = 1 => StoreAsInit

\* Number of successful calls of operation op made by delivery d.
Applied(d, op) ==
    Cardinality({i \in 1 .. Len(calls[d]) : calls[d][i].op = op /\ calls[d][i].ok})

AllCallsOk(d) == \A i \in 1 .. Len(calls[d]) : calls[d][i].ok

(***************************************************************************)
(* Properties.                                                             *)
(***************************************************************************)

\* C1: a delivery whose signature is forged or absent, or whose body is not
\* a well-formed envelope, is answered 400 on arrival, before any field of
\* the event is read, and makes no credit, no priority update and no
\* notification; hence no effect of a delivery precedes its verification.
C1_UnverifiedRejected ==
    \A d \in DOMAIN req :
        ~WellSigned(req[d]) =>
            /\ RejectedWithoutEffect(d, 400)
            /\ d \notin DOMAIN local

\* A forged delivery of an event that would otherwise be credited.
C1_Witness ==
    \E d \in DOMAIN req :
        /\ req[d].sig = "forged"
        /\ "event" \in DOMAIN req[d]
        /\ IsCheckout(req[d]) /\ ForThisTenant(req[d]) /\ InCatalog(req[d])
        /\ Numeric(req[d], "telegram_user_id")
        /\ Numeric(req[d], "points_awarded")
        /\ pc[d] = "done"
        /\ resp[d].status = 400

\* C2: a well-signed completed checkout whose project tag is absent or is
\* another deployment's is answered 200 "ignored" and has no effect,
\* whatever the other metadata hold.
C2_OtherTenantIgnored ==
    \A d \in DOMAIN req :
        (WellSigned(req[d]) /\ IsCheckout(req[d]) /\ ~ForThisTenant(req[d])) =>
            /\ RejectedWithoutEffect(d, 200)
            /\ resp[d].content = "ignored"

\* Another tenant's event, or an untagged one, whose account id is missing
\* or not a number: it would be 400 were it read before the tenant filter.
C2_Witness ==
    \E d \in DOMAIN req :
        /\ WellSigned(req[d]) /\ IsCheckout(req[d]) /\ ~ForThisTenant(req[d])
        /\ ~Numeric(req[d], "telegram_user_id")
        /\ InCatalog(req[d])
        /\ pc[d] = "done"
        /\ resp[d].status = 200

\* C3: a well-signed tenant event with numeric account a, a catalog package,
\* numeric points p and numeric tier b, delivered with the bot configured
\* and every call succeeding, makes exactly the calls credit(a, p),
\* priority(a, b), message(a, p, b), in that order, and is answered 200.
C3_ValidEventApplied ==
    \A d \in DOMAIN req :
        ( /\ TenantCheckout(req[d]) /\ InCatalog(req[d])
          /\ Numeric(req[d], "points_awarded") /\ Numeric(req[d], "priority_boost")
          /\ pc[d] = "done" /\ bot /\ AllCallsOk(d) ) =>
            LET a == NumberOf(req[d], "telegram_user_id")
                p == NumberOf(req[d], "points_awarded")
                b == NumberOf(req[d], "priority_boost")
            IN  /\ calls[d] = <<Credit(a, p, TRUE), Tier(a, b, TRUE), Message(a, p, b, TRUE)>>
                /\ resp[d].status = 200
                /\ served = 1 =>
                     /\ points = [x \in Accounts |-> IF x = a THEN p ELSE 0]
                     /\ priority[a] = b
                     /\ \A x \in Accounts \ {a} : priority[x] \in InitialTiers

\* 500 points and tier 1 for account 7, delivered once.
C3_Witness ==
    \E d \in DOMAIN req :
        /\ TenantCheckout(req[d]) /\ InCatalog(req[d])
        /\ req[d].event.metadata.telegram_user_id = <<"7">>
        /\ "points_awarded" \in DOMAIN req[d].event.metadata
        /\ req[d].event.metadata.points_awarded = <<"5", "0", "0">>
        /\ "priority_boost" \in DOMAIN req[d].event.metadata
        /\ req[d].event.metadata.priority_boost = <<"1">>
        /\ pc[d] = "done" /\ bot /\ AllCallsOk(d)
        /\ served = 1
        /\ points[7] = 500 /\ priority[7] = 1
        /\ Len(calls[d]) = 3

\* The deliveries received so far all carry the same request, are all
\* answered, and no call of theirs to the store failed.
SameEventDelivered ==
    /\ DOMAIN req # {}
    /\ \A d, e \in DOMAIN req : req[d] = req[e]
    /\ \A d \in DOMAIN req :
         /\ pc[d] = "done"
         /\ \A i \in 1 .. Len(calls[d]) : calls[d][i].op # "send_message" => calls[d][i].ok

\* C4: nothing is deduplicated.  When the same valid event has been
\* delivered n times, each delivery has credited and has updated the
\* priority once, and the balance has grown by n times points_awarded.
C4_RedeliveryAppliedAgain ==
    SameEventDelivered =>
        LET r == req[CHOOSE d \in DOMAIN req : TRUE]
            n == Cardinality(DOMAIN req)
            a == NumberOf(r, "telegram_user_id")
        IN  /\ \A d \in DOMAIN req :
                 /\ Applied(d, "update_user_points") = 1
                 /\ Applied(d, "update_user_priority") = 1
            /\ points[a] = n * ExpectedPoints(r)
            /\ priority[a] = ExpectedTier(r)

\* The same 500-point event delivered twice or more.
C4_Witness ==
    /\ SameEventDelivered
    /\ Cardinality(DOMAIN req) >= 2
    /\ ExpectedPoints(req[CHOOSE d \in DOMAIN req : TRUE]) = 500
    /\ points[7] = 500 * Cardinality(DOMAIN req)

\* C5: every delivery that passes verification and parsing is answered 200,
\* so that only signature and parse failures are answered otherwise.
C5_VerifiedAlwaysOk ==
    \A d \in DOMAIN resp : WellSigned(req[d]) => resp[d].status = 200

\* C6: a well-signed completed checkout of this tenant whose account id is
\* missing or not a number is answered 400 and has no effect, whatever the
\* package, the points and the priority are.
C6_BadAccountRejected ==
    \A d \in DOMAIN req :
        ( /\ WellSigned(req[d]) /\ IsCheckout(req[d]) /\ ForThisTenant(req[d])
          /\ ~Numeric(req[d], "telegram_user_id") ) =>
            /\ RejectedWithoutEffect(d, 400)
            /\ d \notin DOMAIN local

\* No account id at all, in an event that is otherwise complete.
C6_Witness ==
    \E d \in DOMAIN req :
        /\ WellSigned(req[d]) /\ IsCheckout(req[d]) /\ ForThisTenant(req[d])
        /\ "telegram_user_id" \notin DOMAIN req[d].event.metadata
        /\ InCatalog(req[d])
        /\ Numeric(req[d], "points_awarded") /\ Numeric(req[d], "priority_boost")
        /\ pc[d] = "done"
        /\ resp[d].status = 400

\* C7: for a tenant event with numeric account and catalog package, the
\* credit is made with the event's points, or with 0 when they are missing
\* or not a number, and once it has succeeded the priority update is made
\* with the event's tier, or with 2 when it is missing or not a number; the
\* answer is 200 in every case.
C7_Fallbacks ==
    \A d \in DOMAIN req :
        (TenantCheckout(req[d]) /\ InCatalog(req[d])) =>
            LET a == NumberOf(req[d], "telegram_user_id")
                n == Len(calls[d])
            IN  /\ n >= 1 => calls[d][1] = Credit(a, ExpectedPoints(req[d]), calls[d][1].ok)
                /\ n >= 2 => calls[d][2] = Tier(a, ExpectedTier(req[d]), calls[d][2].ok)
                /\ pc[d] = "done" =>
                     /\ resp[d].status = 200
                     /\ n >= 1
                     /\ calls[d][1].ok => n >= 2
                /\ (served = 1 /\ n >= 2 /\ calls[d][2].ok) =>
                     /\ points[a] = ExpectedPoints(req[d])
                     /\ priority[a] = ExpectedTier(req[d])

\* Both fallbacks at once: no points, a priority that is not a number.
C7_Witness ==
    \E d \in DOMAIN req :
        /\ TenantCheckout(req[d]) /\ InCatalog(req[d])
        /\ "points_awarded" \notin DOMAIN req[d].event.metadata
        /\ "priority_boost" \in DOMAIN req[d].event.metadata
        /\ req[d].event.metadata.priority_boost = <<"x">>
        /\ pc[d] = "done"
        /\ Len(calls[d]) >= 2 /\ calls[d][2].ok
        /\ calls[d][1].value = 0 /\ calls[d][2].value = 2

\* C8: a well-signed event of any other type is answered 200 and has no
\* effect, whatever its metadata.
C8_OtherTypesNoEffect ==
    \A d \in DOMAIN req :
        (WellSigned(req[d]) /\ ~IsCheckout(req[d])) => RejectedWithoutEffect(d, 200)

\* Another event type carrying metadata that a checkout would be credited for.
C8_Witness ==
    \E d \in DOMAIN req :
        /\ WellSigned(req[d]) /\ ~IsCheckout(req[d])
        /\ ForThisTenant(req[d]) /\ InCatalog(req[d])
        /\ Numeric(req[d], "telegram_user_id") /\ Numeric(req[d], "points_awarded")
        /\ pc[d] = "done"
        /\ resp[d].status = 200

\* The confirmation of delivery d failed.
MessageFailed(d) ==
    /\ pc[d] = "done"
    /\ calls[d] # <<>>
    /\ calls[d][Len(calls[d])].op = "send_message"
    /\ ~calls[d][Len(calls[d])].ok

\* C9: when the confirmation fails, the answer is still 200, the credit and
\* the priority update were each made once and stay in the store.
C9_MessageFailureAbsorbed ==
    \A d \in DOMAIN req :
        MessageFailed(d) =>
            /\ resp[d].status = 200
            /\ Len(calls[d]) = 3
            /\ calls[d][1].op = "update_user_points" /\ calls[d][1].ok
            /\ calls[d][2].op = "update_user_priority" /\ calls[d][2].ok
            /\ served = 1 =>
                 /\ points[calls[d][1].user_id] = calls[d][1].value
                 /\ priority[calls[d][2].user_id] = calls[d][2].value

\* A failed confirmation of a 500-point credit.
C9_Witness ==
    \E d \in DOMAIN req :
        /\ MessageFailed(d)
        /\ served = 1
        /\ points[7] = 500

\* C10: a tenant event with numeric account whose package is missing or not
\* in the catalog is answered 200 and has no effect.
C10_UnknownPackageSkipped ==
    \A d \in DOMAIN req :
        (TenantCheckout(req[d]) /\ ~InCatalog(req[d])) => RejectedWithoutEffect(d, 200)

\* A package that is not in the catalog, with points to credit.
C10_Witness ==
    \E d \in DOMAIN req :
        /\ TenantCheckout(req[d])
        /\ "package_id" \in DOMAIN req[d].event.metadata
        /\ req[d].event.metadata.package_id = "vip"
        /\ Numeric(req[d], "points_awarded")
        /\ pc[d] = "done"
        /\ resp[d].status = 200

\* C11: no webhook step makes an account's tier numerically larger than it
\* was: a priority write only moves the tier to min(current, requested).
C11_TierNeverWorse ==
    [][\A a \in Accounts : priority'[a] <= priority[a]]_vars

\* The deliveries that have credited account a.
CreditedBy(a) ==
    {d \in DOMAIN req :
        /\ Applied(d, "update_user_points") = 1
        /\ NumberOf(req[d], "telegram_user_id") = a}

RECURSIVE SumOfPoints(_)
SumOfPoints(D) ==
    IF D = {} THEN 0
    ELSE LET d == CHOOSE x \in D : TRUE
         IN  ExpectedPoints(req[d]) + SumOfPoints(D \ {d})

\* C15: however the steps of overlapping deliveries interleave, an account's
\* balance is its initial balance, 0, plus the points_awarded of every
\* delivery whose credit has been applied; no credit is lost or doubled.
C15_CreditsAddUp ==
    /\ points = [a \in Accounts |-> SumOfPoints(CreditedBy(a))]
    /\ \A d \in DOMAIN req : Applied(d, "update_user_points") <= 1
    /\ \A d \in DOMAIN req :
         (pc[d] = "done" /\ calls[d][1].ok) => Applied(d, "update_user_points") = 1

\* Two deliveries, of 500 and of 2000 points, both credited before either
\* has updated the priority.
C15_Witness ==
    \E d, e \in DOMAIN req :
        /\ ExpectedPoints(req[d]) = 500 /\ ExpectedPoints(req[e]) = 2000
        /\ pc[d] = "update_user_priority" /\ pc[e] = "update_user_priority"
        /\ points[7] = 2500

BothTiersWritten(d, e) ==
    /\ pc[d] = "done" /\ pc[e] = "done"
    /\ ExpectedTier(req[d]) = 1 /\ ExpectedTier(req[e]) = 3
    /\ Applied(d, "update_user_priority") = 1
    /\ Applied(e, "update_user_priority") = 1

C16_WitnessBetterLast ==
    \E d, e \in DOMAIN req : BothTiersWritten(d, e) /\ priority[7] = 1

\* C17: a failure of the store is absorbed.  After a failed credit the
\* handler makes no further call; after a failed priority update that
\* followed a successful credit the credit stays and no confirmation is
\* attempted; the answer is 200 in both cases.
C17_StoreFailureAbsorbed ==
    \A d \in DOMAIN req :
        /\ (Len(calls[d]) >= 1 /\ ~calls[d][1].ok) =>
              /\ Len(calls[d]) = 1
              /\ pc[d] = "done" /\ resp[d].status = 200
              /\ served = 1 => StoreAsInit
        /\ (Len(calls[d]) >= 2 /\ ~calls[d][2].ok) =>
              /\ Len(calls[d]) = 2
              /\ calls[d][1].op = "update_user_points" /\ calls[d][1].ok
              /\ calls[d][2].op = "update_user_priority"
              /\ pc[d] = "done" /\ resp[d].status = 200
              /\ served = 1 =>
                   /\ points = [x \in Accounts |->
                                  IF x = calls[d][1].user_id THEN calls[d][1].value ELSE 0]
                   /\ \E t \in InitialTiers : priority = [a \in Accounts |-> t]

\* The priority update failed after 500 points had been credited.
C17_Witness ==
    \E d \in DOMAIN req :
        /\ Len(calls[d]) = 2 /\ ~calls[d][2].ok
        /\ served = 1
        /\ points[7] = 500
        /\ pc[d] = "done"

\* C18: without a messaging channel a valid tenant event is credited and
\* its priority updated as with one, no confirmation is attempted, and the
\* answer is 200.
C18_NoBotStillApplies ==
    ~bot =>
      \A d \in DOMAIN req :
        /\ pc[d] # "send_message"
        /\ \A i \in 1 .. Len(calls[d]) : calls[d][i].op # "send_message"
        /\ ( /\ TenantCheckout(req[d]) /\ InCatalog(req[d])
             /\ pc[d] = "done" /\ AllCallsOk(d) ) =>
               LET a == NumberOf(req[d], "telegram_user_id")
               IN  /\ calls[d] = <<Credit(a, ExpectedPoints(req[d]), TRUE),
                                   Tier(a, ExpectedTier(req[d]), TRUE)>>
                   /\ resp[d].status = 200
                   /\ served = 1 =>
                        /\ points[a] = ExpectedPoints(req[d])
                        /\ priority[a] = ExpectedTier(req[d])

\* A 500-point event credited with no bot.
C18_Witness ==
    \E d \in DOMAIN req :
        /\ ~bot
        /\ TenantCheckout(req[d]) /\ InCatalog(req[d])
        /\ pc[d] = "done" /\ AllCallsOk(d)
        /\ Len(calls[d]) = 2
        /\ served = 1 /\ points[7] = 500

\* The deliveries that have attempted a confirmation to account a, and
\* those whose credit and priority update for a both succeeded.
NotifiedFor(a) ==
    {d \in DOMAIN req :
        \E i \in 1 .. Len(calls[d]) :
            calls[d][i].op = "send_message" /\ calls[d][i].chat_id = a}

MutatedFor(a) ==
    {d \in DOMAIN req :
        /\ Len(calls[d]) >= 2
        /\ calls[d][1] = Credit(a, calls[d][1].value, TRUE)
        /\ calls[d][2] = Tier(a, calls[d][2].value, TRUE)}

\* C19: a delivery calls the credit first, the priority update second and
\* the confirmation third; the confirmation is attempted only after both
\* store calls of that delivery succeeded and it carries the points and the
\* tier they wrote, so confirmations never outnumber completed mutations.
C19_EffectOrder ==
    /\ \A d \in DOMAIN req :
         /\ Len(calls[d]) <= 3
         /\ Len(calls[d]) >= 1 => calls[d][1].op = "update_user_points"
         /\ Len(calls[d]) >= 2 => calls[d][2].op = "update_user_priority"
         /\ Len(calls[d]) >= 3 =>
              LET c == calls[d][3]
              IN  /\ c.op = "send_message"
                  /\ calls[d][1] = Credit(c.chat_id, c.points, TRUE)
                  /\ calls[d][2] = Tier(c.chat_id, c.tier, TRUE)
         /\ pc[d] = "send_message" => (Len(calls[d]) = 2 /\ AllCallsOk(d))
    /\ \A a \in Accounts :
         Cardinality(NotifiedFor(a)) <= Cardinality(MutatedFor(a))

\* A confirmation of 2000 points and tier 3 after both were written.
C19_Witness ==
    \E d \in DOMAIN req :
        /\ Len(calls[d]) = 3
        /\ calls[d][3].op = "send_message"
        /\ calls[d][3].points = 2000 /\ calls[d][3].tier = 3
        /\ served = 1
        /\ points[calls[d][3].chat_id] = 2000
        /\ priority[calls[d][3].chat_id] = 3

(***************************************************************************)
(* Properties of crear_sesion, stated on the raw request.                  *)
(***************************************************************************)
CatalogPoints == [p200 |-> 500, p500 |-> 2000, p1000 |-> 5000]

Absent(data, key) == key \notin DOMAIN data

\* The request names an account: a non-empty text or a number.
HasAccountId(data) ==
    /\ ~Absent(data, "telegram_user_id")
    /\ data.telegram_user_id # [str |-> <<>>]

HasCatalogPackage(data) ==
    /\ ~Absent(data, "paquete_id")
    /\ data.paquete_id \in CatalogIds

BoostIsInteger(data) ==
    /\ ~Absent(data, "priority_boost")
    /\ DOMAIN data.priority_boost = {"int"}

\* The account id as a text.
IdText(v) ==
    IF DOMAIN v = {"int"} THEN CHOOSE t \in DOMAIN Numeral : Numeral[t] = v.int
    ELSE v.str

\* The exchange was answered 400 and the provider was not called.
RefusedUncalled(x) ==
    /\ x.resp.status = 400
    /\ ~x.called
    /\ "url" \notin DOMAIN x.resp

\* C12: a request to crear_sesion whose telegram_user_id is empty or absent,
\* or whose paquete_id is not in the catalog, or whose priority_boost is
\* present but not an integer, is answered 400, the payment provider is not
\* called and no checkout URL is returned.
C12_InvalidRequestsRejected ==
    \A i \in 1 .. Len(checkout) :
        LET x == checkout[i]
        IN  (\/ ~HasAccountId(x.data)
             \/ ~HasCatalogPackage(x.data)
             \/ (~Absent(x.data, "priority_boost") /\ ~BoostIsInteger(x.data)))
            => RefusedUncalled(x)

\* The session carries the account id, the package id, the catalog points
\* of the package and the tenant tag of the request, and its URL is the one
\* returned to the caller.
SessionAsRequested(x) ==
    /\ x.resp.status = 200
    /\ "url" \in DOMAIN x.resp
    /\ x.resp.url = x.provider.url
    /\ Len(x.session) = 1
    /\ x.session[1].url = x.provider.url
    /\ x.session[1].metadata.telegram_user_id = IdText(x.data.telegram_user_id)
    /\ x.session[1].metadata.package_id = x.data.paquete_id
    /\ x.session[1].metadata.points_awarded = [int |-> CatalogPoints[x.data.paquete_id]]
    /\ x.session[1].metadata.project = "videos2hotbot"

\* C13 as stated: every request with an account id and a catalog package,
\* the provider call succeeding, returns the provider's URL and creates a
\* session with that account id, package id, catalog points and tenant tag.
C13_ValidRequestGetsSession ==
    \A i \in 1 .. Len(checkout) :
        LET x == checkout[i]
        IN  (HasAccountId(x.data) /\ HasCatalogPackage(x.data) /\ x.provider.ok)
            => SessionAsRequested(x)

\* C13, amended: every request with an account id, a catalog package and a
\* priority_boost that is absent or an integer, the provider call
\* succeeding, returns the provider's URL and creates a session with that
\* account id, package id, catalog points and tenant tag.
C13_ValidRequestGetsSession_Amended ==
    \A i \in 1 .. Len(checkout) :
        LET x == checkout[i]
        IN  (/\ HasAccountId(x.data) /\ HasCatalogPackage(x.data)
             /\ (Absent(x.data, "priority_boost") \/ BoostIsInteger(x.data))
             /\ x.provider.ok)
            => SessionAsRequested(x)

\* Account 8 asked for p500 with tier 3 and got a session worth 2000 points.
C13_Witness ==
    /\ Len(checkout) = 1
    /\ checkout[1].data = [telegram_user_id |-> [int |-> 8], paquete_id |-> "p500",
                           priority_boost |-> [int |-> 3]]
    /\ checkout[1].resp.status = 200
    /\ checkout[1].session[1].metadata.points_awarded = [int |-> 2000]

\* C14: no outcome of crear_sesion (400, 200 with URL, 500) changes points
\* or priority or makes a call to the store or to the messaging channel;
\* while no completed-payment event has been delivered the store is as it
\* was at the start, however many sessions were asked for.
C14_SessionLeavesStore ==
    /\ [](served = 0 =>
            (StoreAsInit /\ \A d \in Deliveries : calls[d] = <<>>))
    /\ [][asked' # asked =>
            (points' = points /\ priority' = priority /\ calls' = calls)]_vars

\* Two sessions asked for, the latest created, nothing delivered.
C14_Witness ==
    /\ asked = 2
    /\ served = 0
    /\ checkout[1].resp.status = 200
    /\ checkout[1].called
    /\ StoreAsInit

\* The accounts a request's telegram_user_id denotes.
RequestedAccounts(data) ==
    IF Absent(data, "telegram_user_id") THEN {}
    ELSE IF DOMAIN data.telegram_user_id = {"int"} THEN {data.telegram_user_id.int}
    ELSE IF data.telegram_user_id.str \in DOMAIN Numeral
         THEN {Numeral[data.telegram_user_id.str]}
    ELSE {}

RequestedTier(data) ==
    IF Absent(data, "priority_boost") THEN 2 ELSE data.priority_boost.int

\* C20: when crear_sesion has returned a URL for a request (priority_boost
\* an integer or absent) and the completed-checkout event of that session
\* is delivered, the store accepting its calls, the delivery is answered
\* 200, credits once the catalog points of the requested package to the
\* requesting account and sets its tier to the request's priority_boost,
\* or to 2 when the request had none.
C20_RoundTrip ==
    \A d \in DOMAIN req :
        LET x == checkout[1]
        IN  (/\ pc[d] = "done"
             /\ SessionCreated
             /\ x.resp.status = 200
             /\ req[d] = CompletedCheckout(x.session[1])
             /\ (Absent(x.data, "priority_boost") \/ BoostIsInteger(x.data))
             /\ AllCallsOk(d))
            => /\ resp[d].status = 200
               /\ \E a \in RequestedAccounts(x.data) :
                    /\ Len(calls[d]) >= 2
                    /\ calls[d][1] = Credit(a, CatalogPoints[x.data.paquete_id], TRUE)
                    /\ calls[d][2] = Tier(a, RequestedTier(x.data), TRUE)

=============================================================================
